---- MODULE Spec2Model ----
(***************************************************************************)
(* The cold-outreach pipeline of app/crew.py (OutreachCrew.run with its     *)
(* JSON extraction step), the schemas of app/schemas.py that validate each  *)
(* stage's output, and the two HTTP entry points of app/api.py that run the *)
(* pipeline (POST /run and POST /start_job).                                *)
(*                                                                          *)
(* Text is a sequence of tokens.  A token is one of the characters the      *)
(* regular expressions and the JSON grammar tell apart (braces, brackets,   *)
(* quote, colon, comma, space, newline), the three-backtick fence, a number *)
(* literal, or a word: a run of letters that none of them tells apart.      *)
(***************************************************************************)
EXTENDS Integers, Sequences, FiniteSets, TLC

LBRACE == "{"
RBRACE == "}"
LBRACK == "["
RBRACK == "]"
QUOTE == "\""
COLON == ":"
COMMA == ","
SPACE == " "
NEWLINE == "\n"
\* the three-backtick code fence, one token
FENCE == "<fence>"
JSONWORD == "json"

\* \s of the regular expressions, and the WHITESPACE of the json decoder
Whitespace == {SPACE, NEWLINE}

\* the number literals of the modelled texts
NumberTokens == {"0", "1"}

----------------------------------------------------------------------------
\* The two regular expressions of _parse_json_output, as re.search runs them:
\* leftmost start, and at each start the first alternative that succeeds.

Least(S) == CHOOSE i \in S : \A j \in S : i <= j
Greatest(S) == CHOOSE i \in S : \A j \in S : j <= i

\* the first index of S, or past the end of s if S is empty
FirstOr(S, s) == IF S = {} THEN Len(s) + 1 ELSE Least(S)

\* \s* from i: where the run of whitespace ends
SkipWhitespace(s, i) == FirstOr({j \in i..Len(s) : s[j] \notin Whitespace}, s)

\* [^{}]* from i: where the run of non-brace characters ends
SkipNonBrace(s, i) == FirstOr({j \in i..Len(s) : s[j] \in {LBRACE, RBRACE}}, s)

\* \s* and the fence right after position e
FenceCloses(s, e) ==
    LET k == SkipWhitespace(s, e + 1) IN k <= Len(s) /\ s[k] = FENCE

\* .*?\} followed by \s* and the fence: the first closing brace at or after e that the
\* closing fence follows (0: none)
LazyClose(s, e) ==
    LET closes == {j \in e..Len(s) : s[j] = RBRACE /\ FenceCloses(s, j)}
    IN IF closes = {} THEN 0 ELSE Least(closes)

\* \s*(\{.*?\})\s*FENCE from position j: the span of group 1, <<0, 0>> if none
FenceGroupAt(s, j) ==
    LET k == SkipWhitespace(s, j) IN
    IF k <= Len(s) /\ s[k] = LBRACE
    THEN LET e == LazyClose(s, k + 1) IN IF e = 0 THEN <<0, 0>> ELSE <<k, e>>
    ELSE <<0, 0>>

\* FENCE(?:json)?\s*(\{.*?\})\s*FENCE anchored at i
FenceMatchAt(s, i) ==
    IF s[i] # FENCE THEN <<0, 0>>
    ELSE LET withMarker == IF i + 1 <= Len(s) /\ s[i + 1] = JSONWORD
                           THEN FenceGroupAt(s, i + 2)
                           ELSE <<0, 0>>
         IN IF withMarker # <<0, 0>> THEN withMarker ELSE FenceGroupAt(s, i + 1)

\* re.search(FENCE(?:json)?\s*(\{.*?\})\s*FENCE, s, re.DOTALL): group 1's span
\* in the leftmost match
FenceSearch(s) ==
    LET starts == {i \in 1..Len(s) : FenceMatchAt(s, i) # <<0, 0>>}
    IN IF starts = {} THEN <<0, 0>> ELSE FenceMatchAt(s, Least(starts))

\* (?:\{[^{}]*\}[^{}]*)*\} from position p, where the preceding [^{}]* has
\* stopped: the index of the closing brace, 0 if the match fails
RECURSIVE BraceTail(_, _)
BraceTail(s, p) ==
    IF p > Len(s) THEN 0
    ELSE IF s[p] = RBRACE THEN p
    ELSE LET q == SkipNonBrace(s, p + 1) IN
         IF q <= Len(s) /\ s[q] = RBRACE
         THEN BraceTail(s, SkipNonBrace(s, q + 1))
         ELSE 0

\* \{[^{}]*(?:\{[^{}]*\}[^{}]*)*\} anchored at i: the end of the match, or 0
BraceMatchAt(s, i) ==
    IF s[i] # LBRACE THEN 0 ELSE BraceTail(s, SkipNonBrace(s, i + 1))

\* re.search(\{[^{}]*(?:\{[^{}]*\}[^{}]*)*\}, s, re.DOTALL): group 0's span
\* in the leftmost match
BraceSearch(s) ==
    LET starts == {i \in 1..Len(s) : BraceMatchAt(s, i) # 0}
    IN IF starts = {} THEN <<0, 0>>
       ELSE <<Least(starts), BraceMatchAt(s, Least(starts))>>

----------------------------------------------------------------------------
\* json.loads.  A JSON value is [t, v]: t its kind, v a token sequence (the
\* content of a string), a number literal, a sequence of values (a list) or a
\* function from keys to values (a dict; a key is its token sequence).

JStr(c) == [t |-> "str", v |-> c]
JNum(n) == [t |-> "num", v |-> n]
JArr(a) == [t |-> "arr", v |-> a]
JObj(d) == [t |-> "obj", v |-> d]
NoValue == [t |-> "none", v |-> <<>>]

EmptyDict == [k \in {} |-> NoValue]
DictSet(d, k, x) == [j \in (DOMAIN d) \cup {k} |-> IF j = k THEN x ELSE d[j]]

Parsed(x, p) == [ok |-> TRUE, val |-> x, pos |-> p]
ParseFail == [ok |-> FALSE, val |-> NoValue, pos |-> 0]

\* py_scanstring from the character after the opening quote: up to the next
\* quote; strict mode refuses a control character inside the string
ScanString(s, i) ==
    LET end == FirstOr({j \in i..Len(s) : s[j] \in {QUOTE, NEWLINE}}, s)
    IN IF end > Len(s) \/ s[end] = NEWLINE THEN ParseFail
       ELSE Parsed(JStr(SubSeq(s, i, end - 1)), end + 1)

RECURSIVE ScanOnce(_, _)
RECURSIVE ScanMembers(_, _, _)
RECURSIVE ScanElements(_, _, _)

\* JSONObject's loop, at the opening quote of a key
ScanMembers(s, i, d) ==
    IF i > Len(s) \/ s[i] # QUOTE THEN ParseFail
    ELSE LET key == ScanString(s, i + 1) IN
         IF ~key.ok THEN ParseFail
         ELSE LET c == SkipWhitespace(s, key.pos) IN
              IF c > Len(s) \/ s[c] # COLON THEN ParseFail
              ELSE LET val == ScanOnce(s, SkipWhitespace(s, c + 1)) IN
                   IF ~val.ok THEN ParseFail
                   ELSE LET n == SkipWhitespace(s, val.pos)
                            d2 == DictSet(d, key.val.v, val.val)
                        IN IF n > Len(s) THEN ParseFail
                           ELSE IF s[n] = RBRACE THEN Parsed(JObj(d2), n + 1)
                           ELSE IF s[n] = COMMA
                                THEN ScanMembers(s, SkipWhitespace(s, n + 1), d2)
                                ELSE ParseFail

\* JSONArray's loop, at the start of an element
ScanElements(s, i, a) ==
    LET val == ScanOnce(s, i) IN
    IF ~val.ok THEN ParseFail
    ELSE LET n == SkipWhitespace(s, val.pos)
             a2 == Append(a, val.val)
         IN IF n > Len(s) THEN ParseFail
            ELSE IF s[n] = RBRACK THEN Parsed(JArr(a2), n + 1)
            ELSE IF s[n] = COMMA
                 THEN ScanElements(s, SkipWhitespace(s, n + 1), a2)
                 ELSE ParseFail

\* scan_once: one JSON value starting exactly at i
ScanOnce(s, i) ==
    IF i > Len(s) THEN ParseFail
    ELSE IF s[i] = QUOTE THEN ScanString(s, i + 1)
    ELSE IF s[i] = LBRACE
         THEN LET k == SkipWhitespace(s, i + 1) IN
              IF k <= Len(s) /\ s[k] = RBRACE
              THEN Parsed(JObj(EmptyDict), k + 1)
              ELSE ScanMembers(s, k, EmptyDict)
    ELSE IF s[i] = LBRACK
         THEN LET k == SkipWhitespace(s, i + 1) IN
              IF k <= Len(s) /\ s[k] = RBRACK
              THEN Parsed(JArr(<<>>), k + 1)
              ELSE ScanElements(s, k, <<>>)
    ELSE IF s[i] \in NumberTokens THEN Parsed(JNum(s[i]), i + 1)
    ELSE ParseFail

\* json.loads(s): one value, whitespace around it, nothing after it
\* (ok = FALSE: json.JSONDecodeError)
Loads(s) ==
    LET r == ScanOnce(s, SkipWhitespace(s, 1)) IN
    IF ~r.ok THEN ParseFail
    ELSE IF SkipWhitespace(s, r.pos) = Len(s) + 1 THEN r ELSE ParseFail

\* the newline and the indentation json.dumps(..., indent=2) writes at a depth
Pad(level) == <<NEWLINE>> \o [i \in 1..(2 * level) |-> SPACE]

RECURSIVE JsonDumpsAt(_, _)
RECURSIVE DumpsMembers(_, _, _)
RECURSIVE JsonDumpsItems(_, _)

\* the items of a list, one per line
JsonDumpsItems(items, level) ==
    IF Len(items) = 1 THEN items[1]
    ELSE items[1] \o <<COMMA>> \o Pad(level) \o JsonDumpsItems(Tail(items), level)

\* the members of a dict, one "key": value per line. Python writes them in
\* insertion order; the dicts here are unordered, the order is an arbitrary
\* fixed one.
DumpsMembers(d, keys, level) ==
    LET k == CHOOSE j \in keys : TRUE
        member == <<QUOTE>> \o k \o <<QUOTE, COLON, SPACE>> \o JsonDumpsAt(d[k], level)
    IN IF keys = {k} THEN member
       ELSE member \o <<COMMA>> \o Pad(level) \o DumpsMembers(d, keys \ {k}, level)

JsonDumpsAt(x, level) ==
    CASE x.t = "str" -> <<QUOTE>> \o x.v \o <<QUOTE>>
      [] x.t = "num" -> <<x.v>>
      [] x.t = "arr" ->
            IF x.v = <<>> THEN <<LBRACK, RBRACK>>
            ELSE <<LBRACK>> \o Pad(level + 1)
                 \o JsonDumpsItems([i \in 1..Len(x.v) |-> JsonDumpsAt(x.v[i], level + 1)],
                                   level + 1)
                 \o Pad(level) \o <<RBRACK>>
      [] x.t = "obj" ->
            IF DOMAIN x.v = {} THEN <<LBRACE, RBRACE>>
            ELSE <<LBRACE>> \o Pad(level + 1)
                 \o DumpsMembers(x.v, DOMAIN x.v, level + 1)
                 \o Pad(level) \o <<RBRACE>>

\* json.dumps(x, indent=2)
JsonDumps(x) == JsonDumpsAt(x, 0)

----------------------------------------------------------------------------
\* _parse_json_output: the fenced block's group 1 if the first search matches,
\* then the brace span if the second search matches, then json.loads.
\* ok = FALSE is the ValueError raised from json.JSONDecodeError.

Span(s, m) == IF m = <<0, 0>> THEN s ELSE SubSeq(s, m[1], m[2])

\* a variant that answers an empty dict where json.loads fails
ParseJsonOutputLenient(raw_output) ==
    LET fenced == Span(raw_output, FenceSearch(raw_output))
        braced == Span(fenced, BraceSearch(fenced))
        r == Loads(braced)
    IN IF r.ok THEN [ok |-> TRUE, val |-> r.val]
       ELSE [ok |-> TRUE, val |-> JObj(EmptyDict)]

ParseJsonOutput(raw_output) ==
    LET fenced == Span(raw_output, FenceSearch(raw_output))
        braced == Span(fenced, BraceSearch(fenced))
        r == Loads(braced)
    IN [ok |-> r.ok, val |-> r.val]

----------------------------------------------------------------------------
\* The pydantic models that validate the stage outputs (app/schemas.py).
\* Model(**d) takes a dict d; a key the model does not declare is ignored.

HooksMinLength == 1
HooksMaxLength == 5
SubjectLinesMinLength == 3
SubjectLinesMaxLength == 3
SpamRiskScores == {<<"low">>, <<"medium">>, <<"high">>}

Field(d, k) == IF <<k>> \in DOMAIN d THEN d[<<k>>] ELSE NoValue
IsStr(x) == x.t = "str"
IsStrList(x) == x.t = "arr" /\ \A i \in 1..Len(x.v) : x.v[i].t = "str"
StrItems(x) == [i \in 1..Len(x.v) |-> x.v[i].v]

ResearchOutputValid(d) ==
    /\ IsStr(Field(d, "industry"))
    /\ IsStr(Field(d, "value_proposition"))
    /\ IsStrList(Field(d, "personalization_hooks"))
    /\ Len(Field(d, "personalization_hooks").v) >= HooksMinLength
    /\ Len(Field(d, "personalization_hooks").v) <= HooksMaxLength
    /\ IsStr(Field(d, "company_summary"))

ResearchOutput(d) ==
    [industry |-> Field(d, "industry").v,
     value_proposition |-> Field(d, "value_proposition").v,
     personalization_hooks |-> StrItems(Field(d, "personalization_hooks")),
     company_summary |-> Field(d, "company_summary").v]

\* a variant whose subject_lines has min_length only
CopyOutputValidMinOnly(d) ==
    /\ IsStrList(Field(d, "subject_lines"))
    /\ Len(Field(d, "subject_lines").v) >= SubjectLinesMinLength
    /\ IsStr(Field(d, "primary_email"))
    /\ IsStr(Field(d, "follow_up_email"))

CopyOutputValid(d) ==
    /\ IsStrList(Field(d, "subject_lines"))
    /\ Len(Field(d, "subject_lines").v) >= SubjectLinesMinLength
    /\ Len(Field(d, "subject_lines").v) <= SubjectLinesMaxLength
    /\ IsStr(Field(d, "primary_email"))
    /\ IsStr(Field(d, "follow_up_email"))

CopyOutput(d) ==
    [subject_lines |-> StrItems(Field(d, "subject_lines")),
     primary_email |-> Field(d, "primary_email").v,
     follow_up_email |-> Field(d, "follow_up_email").v]

QAOutputValid(d) ==
    /\ IsStr(Field(d, "spam_risk_score"))
    /\ Field(d, "spam_risk_score").v \in SpamRiskScores
    /\ <<"risk_factors">> \in DOMAIN d => IsStrList(Field(d, "risk_factors"))
    /\ <<"analysis_notes">> \in DOMAIN d => IsStr(Field(d, "analysis_notes"))

QAOutput(d) ==
    [spam_risk_score |-> Field(d, "spam_risk_score").v,
     risk_factors |-> IF <<"risk_factors">> \in DOMAIN d
                      THEN StrItems(Field(d, "risk_factors")) ELSE <<>>,
     analysis_notes |-> IF <<"analysis_notes">> \in DOMAIN d
                        THEN Field(d, "analysis_notes").v ELSE <<>>]

\* OutreachOutput's field constraints and its validate_subject_lines_count
OutreachOutputValid(o) ==
    /\ Len(o.subject_lines) >= SubjectLinesMinLength
    /\ Len(o.subject_lines) <= SubjectLinesMaxLength
    /\ Len(o.subject_lines) = 3
    /\ Len(o.personalization_points) >= HooksMinLength
    /\ Len(o.personalization_points) <= HooksMaxLength
    /\ o.spam_risk_score \in SpamRiskScores

\* a variant that passes the two email bodies in each other's place
OutreachOutputSwapped(c, r, q) ==
    [subject_lines |-> c.subject_lines,
     primary_email |-> c.follow_up_email,
     follow_up_email |-> c.primary_email,
     personalization_points |-> r.personalization_hooks,
     spam_risk_score |-> q.spam_risk_score]

OutreachOutput(c, r, q) ==
    [subject_lines |-> c.subject_lines,
     primary_email |-> c.primary_email,
     follow_up_email |-> c.follow_up_email,
     personalization_points |-> r.personalization_hooks,
     spam_risk_score |-> q.spam_risk_score]

----------------------------------------------------------------------------
\* The raw texts a generation call may return: a stage-shaped JSON object, well
\* formed or off its schema, bare or decorated, and texts that are no such
\* object at all.

MaxHooks == 6
MaxSubjectLines == 4

RECURSIVE Join(_, _)
Join(parts, sep) ==
    IF parts = <<>> THEN <<>>
    ELSE IF Len(parts) = 1 THEN parts[1]
    ELSE parts[1] \o sep \o Join(Tail(parts), sep)

\* the i-th string of a list: i letters, so that the items of a list differ
Item(i) == [j \in 1..i |-> "x"]
StringText(content) == <<QUOTE>> \o content \o <<QUOTE>>
ListText(items) == <<LBRACK>> \o Join(items, <<COMMA, SPACE>>) \o <<RBRACK>>
StringsText(n) == ListText([i \in 1..n |-> StringText(Item(i))])
Member(k, v) == <<QUOTE, k, QUOTE, COLON, SPACE>> \o v
ObjectText(members) == <<LBRACE>> \o Join(members, <<COMMA, SPACE>>) \o <<RBRACE>>

Shapes == {"ok", "extra_key", "missing_field", "wrong_type"}

ExtraMember(shape) ==
    IF shape = "extra_key" THEN <<Member("confidence", <<"1">>)>> ELSE <<>>

ResearchText(n, shape) ==
    ObjectText(
        <<Member("industry", IF shape = "wrong_type" THEN <<"1">>
                             ELSE StringText(<<"saas">>)),
          Member("value_proposition", StringText(<<"fast", SPACE, "reviews">>)),
          Member("personalization_hooks", StringsText(n))>>
        \o (IF shape = "missing_field" THEN <<>>
            ELSE <<Member("company_summary", StringText(<<"summary">>))>>)
        \o ExtraMember(shape))

CopyText(n, shape) ==
    ObjectText(
        <<Member("subject_lines", StringsText(n)),
          Member("primary_email", IF shape = "wrong_type" THEN <<"1">>
                                  ELSE StringText(<<"primary">>))>>
        \o (IF shape = "missing_field" THEN <<>>
            ELSE <<Member("follow_up_email", StringText(<<"follow", SPACE, "up">>))>>)
        \o ExtraMember(shape))

QAText(score, shape) ==
    ObjectText(
        <<Member("spam_risk_score", IF shape = "wrong_type" THEN <<"1">>
                                    ELSE StringText(<<score>>))>>
        \o (IF shape = "missing_field" THEN <<>>
            ELSE <<Member("risk_factors", StringsText(1)),
                   Member("analysis_notes", StringText(<<"notes">>))>>)
        \o ExtraMember(shape))

Before == <<"Here", SPACE, "is", SPACE, "the", SPACE, "result", COLON, NEWLINE>>
After == <<NEWLINE, "Let", SPACE, "me", SPACE, "know">>

Decorations == {"bare", "commentary", "fenced_json", "fenced", "fenced_commentary"}

Decorate(body, how) ==
    CASE how = "bare" -> body
      [] how = "commentary" -> Before \o body \o After
      [] how = "fenced_json" -> <<FENCE, JSONWORD, NEWLINE>> \o body \o <<NEWLINE, FENCE>>
      [] how = "fenced" -> <<FENCE, NEWLINE>> \o body \o <<NEWLINE, FENCE>>
      [] how = "fenced_commentary" ->
            Before \o <<FENCE, JSONWORD, NEWLINE>> \o body \o <<NEWLINE, FENCE>> \o After

\* valid JSON objects of nesting depth 2, and with a brace inside a string
NestedText ==
    ObjectText(<<Member("result",
                   ObjectText(<<Member("research", ResearchText(1, "ok"))>>))>>)
MetaNestedText ==
    ObjectText(<<Member("meta",
                   ObjectText(<<Member("source",
                                  ObjectText(<<Member("page", <<"1">>)>>))>>)),
                 Member("industry", StringText(<<"saas">>))>>)
ClosingBraceInStringText ==
    ObjectText(<<Member("industry", StringText(<<"saas", RBRACE>>)),
                 Member("company_summary", StringText(<<"summary">>))>>)
OpeningBraceInStringText ==
    ObjectText(<<Member("industry", StringText(<<LBRACE, "saas">>)),
                 Member("company_summary", StringText(<<"summary">>))>>)

UnusualObjects ==
    {NestedText, MetaNestedText, ClosingBraceInStringText, OpeningBraceInStringText}

\* texts with no JSON object in them
ProseTexts ==
    {<<>>,
     <<"Sorry", SPACE, "I", SPACE, "cannot", SPACE, "help">>,
     <<"Sorry", COMMA, SPACE, "no", SPACE, "data", COLON, NEWLINE, "try", SPACE, "later">>}
NonObjectTexts ==
    {<<LBRACK, "1", RBRACK>>, <<"1">>, StringText(<<"saas">>),
     <<NEWLINE>> \o StringsText(2) \o <<NEWLINE>>}
BrokenTexts ==
    {<<LBRACE>> \o Member("industry", StringText(<<"saas">>)),
     <<"Use", SPACE, LBRACE, "name", RBRACE, SPACE>> \o QAText("low", "ok")}

OtherTexts ==
    ProseTexts \cup NonObjectTexts \cup BrokenTexts
    \cup {Decorate(o, how) : o \in UnusualObjects, how \in {"bare", "fenced_json"}}

ResearchTexts ==
    {Decorate(ResearchText(n, "ok"), how) : n \in 0..MaxHooks, how \in Decorations}
    \cup {Decorate(ResearchText(1, shape), "bare") : shape \in Shapes}
    \cup OtherTexts

CopyTexts ==
    {Decorate(CopyText(n, "ok"), how) : n \in 0..MaxSubjectLines,
                                         how \in {"bare", "fenced_json"}}
    \cup {Decorate(CopyText(n, shape), "commentary") :
              n \in {SubjectLinesMaxLength, MaxSubjectLines}, shape \in Shapes}
    \cup OtherTexts

QATexts ==
    {Decorate(QAText(score, shape), how) :
         score \in {"low", "medium", "high", "urgent"},
         shape \in {"ok", "missing_field"}, how \in {"bare", "fenced"}}
    \cup {Decorate(QAText("low", shape), "fenced_commentary") : shape \in Shapes}
    \cup OtherTexts

----------------------------------------------------------------------------
\* One request through POST /run or POST /start_job.

VARIABLES
    pc,                 \* where the request is
    endpoint,           \* "run" or "start_job"
    fetch_outcome,      \* what the GET of the company website did
    website_content,    \* run's local of that name
    steps,              \* fetch_page, run_research, run_copy, run_qa and the
                        \* final OutreachOutput(...), in the order run calls them
    calls,              \* the task of every llm_router.generate call, in order
    gemini_configured,  \* LLMRouter._gemini_configured
    gemini_model,       \* LLMRouter._gemini_model
    api_key,            \* whether GEMINI_API_KEY is set in the environment
    research_result, research_output, research_validated,
    copy_prompt_research,   \* the research_output argument of run_copy
    copy_result, copy_output, copy_validated,
    qa_prompt_copy,         \* the copy_output argument of run_qa
    qa_result, qa_output, qa_validated,
    exc,                \* the exception that left run, if one did
    result,             \* the OutreachOutput run returned, if it returned
    response,           \* what the endpoint answered
    jobs_store          \* api.jobs_store

\* WebScraper._extract_text on its own: the HTML it is given, what it returns
VARIABLES html, extracted

scraperVars == <<html, extracted>>

\* OutreachInput on its own: the request body, and what validation made of it
VARIABLES input_data, input_validated

inputVars == <<input_data, input_validated>>

NotExtracted == <<[c |-> "<unset>", n |-> 0]>>
ScraperIdle == html = <<>> /\ extracted = NotExtracted

\* The server: FastAPI runs each request of a def endpoint on a worker thread,
\* and the threads share llm_router and jobs_store
VARIABLES
    req,                \* for each worker thread, the request it serves
    configure_calls,    \* how many times genai.configure(...) has been executed
    backend_memo,       \* what the backend answered to each prompt so far
    backend_repeats,    \* whether the backend answers a prompt the way it did before
    credential_late     \* whether GEMINI_API_KEY was set after the process started

serverVars == <<req, configure_calls, backend_memo, backend_repeats, credential_late>>

NoInput == [company_name |-> <<>>, company_website |-> "none", target_role |-> <<>>,
            product_description |-> <<>>, outreach_goal |-> <<>>, tone |-> "none"]
NotValidated == [done |-> FALSE, ok |-> FALSE, val |-> NoInput]
InputIdle == input_data = NoInput /\ input_validated = NotValidated

\* what a request through the pipeline leaves alone
sideVars == <<scraperVars, inputVars, serverVars>>

routerVars == <<gemini_configured, gemini_model, api_key>>
researchVars == <<research_result, research_output, research_validated>>
copyVars == <<copy_prompt_research, copy_result, copy_output, copy_validated>>
qaVars == <<qa_prompt_copy, qa_result, qa_output, qa_validated>>
\* the state of the one request of Spec, and the state the requests share
localVars ==
    <<pc, endpoint, fetch_outcome, website_content, steps, calls, researchVars,
      copyVars, qaVars, exc, result, response>>
sharedVars == <<routerVars, jobs_store>>
pipelineVars ==
    <<pc, endpoint, fetch_outcome, website_content, steps, calls, routerVars,
      researchVars, copyVars, qaVars, exc, result, response, jobs_store>>
vars == <<pipelineVars, sideVars>>

\* the values of what is not set yet (Python's None, or an unbound local)
NoText == <<"<unset>">>
None == "None"
GenerativeModel == "gemini-2.5-flash"
NoResearch == ResearchOutput(EmptyDict)
NoCopy == CopyOutput(EmptyDict)
NoQA == QAOutput(EmptyDict)
NoResult == OutreachOutput(NoCopy, NoResearch, NoQA)
NoExc == [kind |-> "none", origin |-> "none", msg |-> "none"]
NoResponse == [code |-> 0, status |-> "none", error |-> "none", message |-> "none",
               body |-> NoResult]
NoJobResult == [kind |-> "None", output |-> NoResult, error |-> "none"]

\* the exceptions, by class, with the place that raises them and str(e)
ScraperError(msg) == [kind |-> "ScraperError", origin |-> "fetch_page", msg |-> msg]
CredentialError ==
    [kind |-> "ValueError", origin |-> "_setup_gemini", msg |-> "GEMINI_API_KEY not set"]
ProviderError ==
    [kind |-> "Exception", origin |-> "generate_content", msg |-> "provider call failed"]
ParseError(stage) ==
    [kind |-> "ValueError", origin |-> "_parse_json_output",
     msg |-> "Failed to parse " \o stage \o " agent output as JSON"]
ValidationError(model) ==
    [kind |-> "ValidationError", origin |-> model, msg |-> "validation error"]
MappingTypeError(model) ==
    [kind |-> "TypeError", origin |-> model, msg |-> "argument after ** must be a mapping"]

FetchOutcomes == {"ok", "timeout", "unreachable", "http_status", "unexpected"}
PageText == <<"Acme", SPACE, "Corp", SPACE, "launched", SPACE, "an", SPACE, "API">>
JobId == 1

Threads == {1, 2}

\* a worker thread with no request
IdleRequest ==
    [kind |-> "none", pc |-> "idle", job |-> 0, stage |-> "none", fetch |-> "none",
     api_key |-> FALSE, generate_calls |-> 0, provider_calls |-> 0,
     raw |-> NoText, research_output |-> NoValue, copy_output |-> NoValue,
     qa_output |-> NoValue, exc |-> NoExc, result |-> NoResult,
     response |-> NoResponse, seen_status |-> "none", seen_result |-> NoJobResult]

\* the server variables where one request alone is followed
ServerIdle ==
    /\ req = [t \in Threads |-> IdleRequest]
    /\ configure_calls = 0
    /\ backend_memo = <<>>
    /\ backend_repeats = FALSE
    /\ credential_late = FALSE

\* no request yet: the module is imported, llm_router and jobs_store are new
PipelineIdle ==
    /\ pc = "idle"
    /\ endpoint = "none"
    /\ fetch_outcome = "none"
    /\ website_content = NoText
    /\ steps = <<>>
    /\ calls = <<>>
    /\ gemini_configured = FALSE
    /\ gemini_model = None
    /\ api_key \in BOOLEAN
    /\ research_result = NoText /\ research_output = NoValue
    /\ research_validated = NoResearch
    /\ copy_prompt_research = NoText
    /\ copy_result = NoText /\ copy_output = NoValue /\ copy_validated = NoCopy
    /\ qa_prompt_copy = NoText
    /\ qa_result = NoText /\ qa_output = NoValue /\ qa_validated = NoQA
    /\ exc = NoExc
    /\ result = NoResult
    /\ response = NoResponse
    /\ jobs_store = <<>>

Init == PipelineIdle /\ ScraperIdle /\ InputIdle /\ ServerIdle

\* run_outreach_agent up to crew.run(input_data)
PostRun ==
    /\ pc = "idle"
    /\ endpoint' = "run"
    /\ pc' = "fetch"
    /\ UNCHANGED <<fetch_outcome, website_content, steps, calls, routerVars,
                   researchVars, copyVars, qaVars, exc, result, response, jobs_store,
                   sideVars>>

\* start_job up to crew.run(request.input_data): the job is stored as running
PostStartJob ==
    /\ pc = "idle"
    /\ endpoint' = "start_job"
    /\ jobs_store' = (JobId :> [status |-> "running", result |-> NoJobResult])
    /\ pc' = "fetch"
    /\ UNCHANGED <<fetch_outcome, website_content, steps, calls, routerVars,
                   researchVars, copyVars, qaVars, exc, result, response,
                   sideVars>>

\* a variant of fetch_page that returns None where the GET fails
FetchPageReturnsNone ==
    /\ pc = "fetch"
    /\ steps' = Append(steps, "fetch")
    /\ \E outcome \in FetchOutcomes :
        /\ fetch_outcome' = outcome
        /\ website_content' = IF outcome = "ok" THEN PageText ELSE NoText
        /\ pc' = "research"
    /\ UNCHANGED <<endpoint, calls, routerVars, researchVars, copyVars, qaVars,
                   exc, result, response, jobs_store,
                   sideVars>>

\* STEP 0: self.scraper.fetch_page(...); every failure leaves as ScraperError
FetchPage ==
    /\ pc = "fetch"
    /\ steps' = Append(steps, "fetch")
    /\ \E outcome \in FetchOutcomes :
        /\ fetch_outcome' = outcome
        /\ IF outcome = "ok"
           THEN website_content' = PageText /\ pc' = "research" /\ UNCHANGED exc
           ELSE /\ exc' = ScraperError(IF outcome = "unexpected"
                                       THEN "Unexpected error scraping"
                                       ELSE "Failed to fetch")
                /\ pc' = "raised"
                /\ UNCHANGED website_content
    /\ UNCHANGED <<endpoint, calls, routerVars, researchVars, copyVars, qaVars,
                   result, response, jobs_store,
                   sideVars>>

\* what the provider does with one prompt: a text, or a failure
Replies(texts) ==
    {[ok |-> TRUE, text |-> t] : t \in texts} \cup {[ok |-> FALSE, text |-> <<>>]}

\* a variant of generate that calls again once where the provider fails
LLMGenerateRetry(task, reply) ==
    /\ UNCHANGED api_key
    /\ IF ~gemini_configured /\ ~api_key
       THEN exc' = CredentialError /\ calls' = Append(calls, task)
            /\ UNCHANGED <<gemini_configured, gemini_model>>
       ELSE /\ gemini_configured' = TRUE
            /\ gemini_model' = GenerativeModel
            /\ IF reply.ok
               THEN calls' = Append(calls, task) /\ UNCHANGED exc
               ELSE calls' = Append(Append(calls, task), task) /\ exc' = ProviderError

\* llm_router.generate(task, prompt): _setup_gemini, then generate_content
LLMGenerate(task, reply) ==
    /\ calls' = Append(calls, task)
    /\ UNCHANGED api_key
    /\ IF ~gemini_configured /\ ~api_key
       THEN exc' = CredentialError /\ UNCHANGED <<gemini_configured, gemini_model>>
       ELSE /\ gemini_configured' = TRUE
            /\ gemini_model' = GenerativeModel
            /\ IF reply.ok THEN UNCHANGED exc ELSE exc' = ProviderError

Generated(reply) == (gemini_configured \/ api_key) /\ reply.ok

\* STEP 1: run_research(...)
RunResearch ==
    /\ pc = "research"
    /\ steps' = Append(steps, "research")
    /\ \E reply \in Replies(ResearchTexts) :
        /\ LLMGenerate("research", reply)
        /\ IF Generated(reply)
           THEN research_result' = reply.text /\ pc' = "parse_research"
           ELSE pc' = "raised" /\ UNCHANGED research_result
    /\ UNCHANGED <<endpoint, fetch_outcome, website_content, research_output,
                   research_validated, copyVars, qaVars, result, response, jobs_store,
                   sideVars>>

\* research_output = self._parse_json_output(research_result, "research")
ParseResearch ==
    /\ pc = "parse_research"
    /\ LET r == ParseJsonOutput(research_result) IN
       IF r.ok
       THEN research_output' = r.val /\ pc' = "validate_research" /\ UNCHANGED exc
       ELSE exc' = ParseError("research") /\ pc' = "raised" /\ UNCHANGED research_output
    /\ UNCHANGED <<endpoint, fetch_outcome, website_content, steps, calls, routerVars,
                   research_result, research_validated, copyVars, qaVars, result,
                   response, jobs_store,
                   sideVars>>

\* a variant that goes on to the Copy stage where the validation fails
ValidateResearchLenient ==
    /\ pc = "validate_research"
    /\ IF research_output.t # "obj"
       THEN exc' = MappingTypeError("ResearchOutput") /\ pc' = "raised"
            /\ UNCHANGED research_validated
       ELSE IF ~ResearchOutputValid(research_output.v)
       THEN pc' = "copy" /\ UNCHANGED <<research_validated, exc>>
       ELSE research_validated' = ResearchOutput(research_output.v) /\ pc' = "copy"
            /\ UNCHANGED exc
    /\ UNCHANGED <<endpoint, fetch_outcome, website_content, steps, calls, routerVars,
                   research_result, research_output, copyVars, qaVars, result,
                   response, jobs_store,
                   sideVars>>

\* research_validated = ResearchOutput(**research_output)
ValidateResearch ==
    /\ pc = "validate_research"
    /\ IF research_output.t # "obj"
       THEN exc' = MappingTypeError("ResearchOutput") /\ pc' = "raised"
            /\ UNCHANGED research_validated
       ELSE IF ~ResearchOutputValid(research_output.v)
       THEN exc' = ValidationError("ResearchOutput") /\ pc' = "raised"
            /\ UNCHANGED research_validated
       ELSE research_validated' = ResearchOutput(research_output.v) /\ pc' = "copy"
            /\ UNCHANGED exc
    /\ UNCHANGED <<endpoint, fetch_outcome, website_content, steps, calls, routerVars,
                   research_result, research_output, copyVars, qaVars, result,
                   response, jobs_store,
                   sideVars>>

\* STEP 2: run_copy(...)
RunCopy ==
    /\ pc = "copy"
    /\ steps' = Append(steps, "copy")
    /\ copy_prompt_research' = JsonDumps(research_output)
    /\ \E reply \in Replies(CopyTexts) :
        /\ LLMGenerate("copy", reply)
        /\ IF Generated(reply)
           THEN copy_result' = reply.text /\ pc' = "parse_copy"
           ELSE pc' = "raised" /\ UNCHANGED copy_result
    /\ UNCHANGED <<endpoint, fetch_outcome, website_content, researchVars, copy_output,
                   copy_validated, qaVars, result, response, jobs_store,
                   sideVars>>

\* copy_output = self._parse_json_output(copy_result, "copy")
ParseCopy ==
    /\ pc = "parse_copy"
    /\ LET r == ParseJsonOutput(copy_result) IN
       IF r.ok
       THEN copy_output' = r.val /\ pc' = "validate_copy" /\ UNCHANGED exc
       ELSE exc' = ParseError("copy") /\ pc' = "raised" /\ UNCHANGED copy_output
    /\ UNCHANGED <<endpoint, fetch_outcome, website_content, steps, calls, routerVars,
                   researchVars, copy_prompt_research, copy_result, copy_validated, qaVars, result,
                   response, jobs_store,
                   sideVars>>

\* copy_validated = CopyOutput(**copy_output)
ValidateCopy ==
    /\ pc = "validate_copy"
    /\ IF copy_output.t # "obj"
       THEN exc' = MappingTypeError("CopyOutput") /\ pc' = "raised"
            /\ UNCHANGED copy_validated
       ELSE IF ~CopyOutputValid(copy_output.v)
       THEN exc' = ValidationError("CopyOutput") /\ pc' = "raised"
            /\ UNCHANGED copy_validated
       ELSE copy_validated' = CopyOutput(copy_output.v) /\ pc' = "qa" /\ UNCHANGED exc
    /\ UNCHANGED <<endpoint, fetch_outcome, website_content, steps, calls, routerVars,
                   researchVars, copy_prompt_research, copy_result, copy_output, qaVars, result, response,
                   jobs_store,
                   sideVars>>

\* STEP 3: run_qa(...)
RunQA ==
    /\ pc = "qa"
    /\ steps' = Append(steps, "qa")
    /\ qa_prompt_copy' = JsonDumps(copy_output)
    /\ \E reply \in Replies(QATexts) :
        /\ LLMGenerate("qa", reply)
        /\ IF Generated(reply)
           THEN qa_result' = reply.text /\ pc' = "parse_qa"
           ELSE pc' = "raised" /\ UNCHANGED qa_result
    /\ UNCHANGED <<endpoint, fetch_outcome, website_content, researchVars, copyVars,
                   qa_output, qa_validated, result, response, jobs_store,
                   sideVars>>

\* qa_output = self._parse_json_output(qa_result, "qa")
ParseQA ==
    /\ pc = "parse_qa"
    /\ LET r == ParseJsonOutput(qa_result) IN
       IF r.ok
       THEN qa_output' = r.val /\ pc' = "validate_qa" /\ UNCHANGED exc
       ELSE exc' = ParseError("qa") /\ pc' = "raised" /\ UNCHANGED qa_output
    /\ UNCHANGED <<endpoint, fetch_outcome, website_content, steps, calls, routerVars,
                   researchVars, copyVars, qa_prompt_copy, qa_result, qa_validated, result, response,
                   jobs_store,
                   sideVars>>

\* a variant that scores the emails low where the QA output fails validation
ValidateQADefault ==
    /\ pc = "validate_qa"
    /\ IF qa_output.t # "obj"
       THEN exc' = MappingTypeError("QAOutput") /\ pc' = "raised"
            /\ UNCHANGED qa_validated
       ELSE IF ~QAOutputValid(qa_output.v)
       THEN qa_validated' = [NoQA EXCEPT !.spam_risk_score = <<"low">>]
            /\ pc' = "assemble" /\ UNCHANGED exc
       ELSE qa_validated' = QAOutput(qa_output.v) /\ pc' = "assemble" /\ UNCHANGED exc
    /\ UNCHANGED <<endpoint, fetch_outcome, website_content, steps, calls, routerVars,
                   researchVars, copyVars, qa_prompt_copy, qa_result, qa_output, result, response,
                   jobs_store,
                   sideVars>>

\* qa_validated = QAOutput(**qa_output)
ValidateQA ==
    /\ pc = "validate_qa"
    /\ IF qa_output.t # "obj"
       THEN exc' = MappingTypeError("QAOutput") /\ pc' = "raised"
            /\ UNCHANGED qa_validated
       ELSE IF ~QAOutputValid(qa_output.v)
       THEN exc' = ValidationError("QAOutput") /\ pc' = "raised"
            /\ UNCHANGED qa_validated
       ELSE qa_validated' = QAOutput(qa_output.v) /\ pc' = "assemble" /\ UNCHANGED exc
    /\ UNCHANGED <<endpoint, fetch_outcome, website_content, steps, calls, routerVars,
                   researchVars, copyVars, qa_prompt_copy, qa_result, qa_output, result, response,
                   jobs_store,
                   sideVars>>

\* FINAL: return OutreachOutput(...)
Assemble ==
    /\ pc = "assemble"
    /\ steps' = Append(steps, "assemble")
    /\ LET o == OutreachOutput(copy_validated, research_validated, qa_validated) IN
       IF OutreachOutputValid(o)
       THEN result' = o /\ pc' = "returned" /\ UNCHANGED exc
       ELSE exc' = ValidationError("OutreachOutput") /\ pc' = "raised"
            /\ UNCHANGED result
    /\ UNCHANGED <<endpoint, fetch_outcome, website_content, calls, routerVars,
                   researchVars, copyVars, qaVars, response, jobs_store,
                   sideVars>>

\* run_outreach_agent: return result
RunReturn ==
    /\ pc = "returned" /\ endpoint = "run"
    /\ response' = [code |-> 200, status |-> "success", error |-> "none",
                    message |-> "none", body |-> result]
    /\ pc' = "done"
    /\ UNCHANGED <<endpoint, fetch_outcome, website_content, steps, calls, routerVars,
                   researchVars, copyVars, qaVars, exc, result, jobs_store,
                   sideVars>>

\* a variant whose except ValueError clause comes before except ValidationError
HttpErrorValueErrorFirst(e) ==
    IF e.kind = "ScraperError"
    THEN [code |-> 502, status |-> "error", error |-> "scrape_failed",
          message |-> e.msg, body |-> NoResult]
    ELSE IF e.kind \in {"ValueError", "ValidationError"}
    THEN [code |-> 500, status |-> "error", error |-> "agent_error",
          message |-> e.msg, body |-> NoResult]
    ELSE [code |-> 500, status |-> "error", error |-> "internal_error",
          message |-> "Unexpected error: " \o e.msg, body |-> NoResult]

\* the except clauses of run_outreach_agent, in their order; pydantic's
\* ValidationError is a ValueError and is caught before it
HttpError(e) ==
    IF e.kind = "ScraperError"
    THEN [code |-> 502, status |-> "error", error |-> "scrape_failed",
          message |-> e.msg, body |-> NoResult]
    ELSE IF e.kind = "ValidationError"
    THEN [code |-> 400, status |-> "error", error |-> "validation_error",
          message |-> "Agent output validation failed", body |-> NoResult]
    ELSE IF e.kind = "ValueError"
    THEN [code |-> 500, status |-> "error", error |-> "agent_error",
          message |-> e.msg, body |-> NoResult]
    ELSE [code |-> 500, status |-> "error", error |-> "internal_error",
          message |-> "Unexpected error: " \o e.msg, body |-> NoResult]

RunExcept ==
    /\ pc = "raised" /\ endpoint = "run"
    /\ response' = HttpError(exc)
    /\ pc' = "done"
    /\ UNCHANGED <<endpoint, fetch_outcome, website_content, steps, calls, routerVars,
                   researchVars, copyVars, qaVars, exc, result, jobs_store,
                   sideVars>>

\* StartJobResponse(status="success", ...), whatever became of the job
StartJobResponse ==
    [code |-> 200, status |-> "success", error |-> "none", message |-> "none",
     body |-> NoResult]

\* start_job after crew.run returned: the job is completed and holds the result
StartJobCompleted ==
    /\ pc = "returned" /\ endpoint = "start_job"
    /\ jobs_store' = [jobs_store EXCEPT ![JobId] =
                         [status |-> "completed",
                          result |-> [kind |-> "output", output |-> result,
                                      error |-> "none"]]]
    /\ response' = StartJobResponse
    /\ pc' = "done"
    /\ UNCHANGED <<endpoint, fetch_outcome, website_content, steps, calls, routerVars,
                   researchVars, copyVars, qaVars, exc, result,
                   sideVars>>

\* start_job's except Exception: the job is failed and holds {"error": str(e)}
StartJobFailed ==
    /\ pc = "raised" /\ endpoint = "start_job"
    /\ jobs_store' = [jobs_store EXCEPT ![JobId] =
                         [status |-> "failed",
                          result |-> [kind |-> "error", output |-> NoResult,
                                      error |-> exc.msg]]]
    /\ response' = StartJobResponse
    /\ pc' = "done"
    /\ UNCHANGED <<endpoint, fetch_outcome, website_content, steps, calls, routerVars,
                   researchVars, copyVars, qaVars, exc, result,
                   sideVars>>

Next ==
    \/ PostRun \/ PostStartJob
    \/ FetchPage
    \/ RunResearch \/ ParseResearch \/ ValidateResearch
    \/ RunCopy \/ ParseCopy \/ ValidateCopy
    \/ RunQA \/ ParseQA \/ ValidateQA
    \/ Assemble
    \/ RunReturn \/ RunExcept
    \/ StartJobCompleted \/ StartJobFailed

Spec == Init /\ [][Next]_vars

----------------------------------------------------------------------------
\* WebScraper._extract_text. A text is held as its runs of like characters:
\* <<[c |-> WORDCHAR, n |-> 5], [c |-> BLANK, n |-> 2]>> is five non-blank
\* characters and two whitespace characters. An HTML document is a sequence
\* of elements, each with a tag, its own text and child elements.

MAX_CONTENT_LENGTH == 10000

WORDCHAR == "w"
BLANK == "s"
DOT == "."
Run(c, n) == [c |-> c, n |-> n]

RemovedTags == {"script", "style", "nav", "footer", "header", "aside"}

RECURSIVE TextLen(_)
\* len(text)
TextLen(t) == IF t = <<>> THEN 0 ELSE t[1].n + TextLen(Tail(t))

\* str.strip()
StripText(t) ==
    LET solid == {i \in 1..Len(t) : t[i].c # BLANK /\ t[i].n > 0}
    IN IF solid = {} THEN <<>> ELSE SubSeq(t, Least(solid), Greatest(solid))

RECURSIVE CollapseFrom(_, _)
CollapseFrom(t, afterBlank) ==
    IF t = <<>> THEN <<>>
    ELSE IF t[1].n = 0 THEN CollapseFrom(Tail(t), afterBlank)
    ELSE IF t[1].c = BLANK
    THEN (IF afterBlank THEN <<>> ELSE <<Run(BLANK, 1)>>) \o CollapseFrom(Tail(t), TRUE)
    ELSE <<t[1]>> \o CollapseFrom(Tail(t), FALSE)

\* re.sub(r'\s+', ' ', text)
CollapseWhitespace(t) == CollapseFrom(t, FALSE)

RECURSIVE Take(_, _)
\* text[:n]
Take(t, n) ==
    IF t = <<>> \/ n = 0 THEN <<>>
    ELSE IF t[1].n <= n THEN <<t[1]>> \o Take(Tail(t), n - t[1].n)
    ELSE <<Run(t[1].c, n)>>

\* "..."
TruncationMarker == <<Run(DOT, 3)>>

\* for element in soup([...]): element.decompose()
Decompose(doc) ==
    LET Kept(e) == e.tag \notin RemovedTags
        Pruned == [i \in 1..Len(doc) |->
                      [doc[i] EXCEPT !.kids = SelectSeq(doc[i].kids, Kept)]]
    IN SelectSeq(Pruned, Kept)

RECURSIVE Flatten(_)
Flatten(ss) == IF ss = <<>> THEN <<>> ELSE ss[1] \o Flatten(Tail(ss))

\* soup.get_text(separator=" ", strip=True): the text nodes in document order,
\* each stripped, the empty ones dropped, joined by one space
GetText(doc) ==
    LET NodeTexts(e) == <<e.text>> \o [k \in 1..Len(e.kids) |-> e.kids[k].text]
        strings == Flatten([i \in 1..Len(doc) |-> NodeTexts(doc[i])])
        stripped == [i \in 1..Len(strings) |-> StripText(strings[i])]
        NonEmpty(t) == t # <<>>
    IN Join(SelectSeq(stripped, NonEmpty), <<Run(BLANK, 1)>>)

\* _extract_text(html)
ExtractText(doc) ==
    LET text == CollapseWhitespace(GetText(Decompose(doc)))
    IN IF TextLen(text) > MAX_CONTENT_LENGTH
       THEN Take(text, MAX_CONTENT_LENGTH) \o TruncationMarker
       ELSE text

MaxElements == 2

NodeTextChoices ==
    {<<>>,
     <<Run(BLANK, 3)>>,
     <<Run(BLANK, 2), Run(WORDCHAR, 5), Run(BLANK, 4), Run(WORDCHAR, 3), Run(BLANK, 1)>>,
     <<Run(WORDCHAR, MAX_CONTENT_LENGTH - 6)>>,
     <<Run(WORDCHAR, MAX_CONTENT_LENGTH)>>,
     <<Run(WORDCHAR, MAX_CONTENT_LENGTH), Run(BLANK, 1)>>,
     <<Run(WORDCHAR, MAX_CONTENT_LENGTH + 1)>>}
KidChoices ==
    {<<>>} \cup {<<[tag |-> g, text |-> t]>> :
                     g \in {"span", "style"},
                     t \in {<<Run(WORDCHAR, 5)>>, <<Run(BLANK, 1), Run(WORDCHAR, 4)>>}}
Elements ==
    {[tag |-> g, text |-> t, kids |-> k] :
         g \in {"p", "script", "nav"}, t \in NodeTextChoices, k \in KidChoices}
Htmls == UNION {[1..n -> Elements] : n \in 1..MaxElements}

ExtractInit ==
    /\ PipelineIdle /\ api_key
    /\ InputIdle /\ ServerIdle
    /\ html \in Htmls
    /\ extracted = NotExtracted

\* fetch_page: return self._extract_text(response.text)
ExtractTextCall ==
    /\ extracted = NotExtracted
    /\ extracted' = ExtractText(html)
    /\ UNCHANGED <<html, pipelineVars, inputVars, serverVars>>

ExtractNext == ExtractTextCall

ExtractSpec == ExtractInit /\ [][ExtractNext]_vars

----------------------------------------------------------------------------
\* OutreachInput: the body of POST /run, and input_data of POST /start_job.
\* The four str fields are texts held as runs, as above.

CompanyNameMinLength == 1
CompanyNameMaxLength == 200
TargetRoleMinLength == 1
TargetRoleMaxLength == 100
ProductDescriptionMinLength == 10
ProductDescriptionMaxLength == 500
OutreachGoalMinLength == 5
OutreachGoalMaxLength == 200

Tones == {"professional", "casual", "founder"}
\* the URLs HttpUrl accepts, among those the requests carry
HttpUrls == {"https://acme.com"}

StrFields == {"company_name", "target_role", "product_description", "outreach_goal"}
MinLength(f) ==
    CASE f = "company_name" -> CompanyNameMinLength
      [] f = "target_role" -> TargetRoleMinLength
      [] f = "product_description" -> ProductDescriptionMinLength
      [] f = "outreach_goal" -> OutreachGoalMinLength
MaxLength(f) ==
    CASE f = "company_name" -> CompanyNameMaxLength
      [] f = "target_role" -> TargetRoleMaxLength
      [] f = "product_description" -> ProductDescriptionMaxLength
      [] f = "outreach_goal" -> OutreachGoalMaxLength

\* Field(..., min_length=, max_length=): checked on the value as it was sent
LengthOk(f, v) == MinLength(f) <= TextLen(v) /\ TextLen(v) <= MaxLength(f)

\* the field_validator, run on a field that passed its Field constraints
strip_whitespace(v) == StripText(v)

\* OutreachInput(**body)
OutreachInput(d) ==
    IF /\ \A f \in StrFields : LengthOk(f, d[f])
       /\ d.company_website \in HttpUrls
       /\ d.tone \in Tones
    THEN [done |-> TRUE, ok |-> TRUE,
          val |-> [f \in DOMAIN d |-> IF f \in StrFields THEN strip_whitespace(d[f])
                                      ELSE d[f]]]
    ELSE [done |-> TRUE, ok |-> FALSE, val |-> NoInput]

\* field values: empty, whitespace only, padded, plain, and over the longest limit
FieldTextChoices ==
    {<<>>,
     <<Run(BLANK, 3)>>,
     <<Run(BLANK, 12)>>,
     <<Run(WORDCHAR, 1)>>,
     <<Run(BLANK, 1), Run(WORDCHAR, 4), Run(BLANK, 5)>>,
     <<Run(WORDCHAR, 6), Run(BLANK, 1), Run(WORDCHAR, 5)>>,
     <<Run(WORDCHAR, ProductDescriptionMaxLength + 1)>>}
Bodies ==
    [company_name : FieldTextChoices, company_website : {"https://acme.com", "acme"},
     target_role : FieldTextChoices, product_description : FieldTextChoices,
     outreach_goal : FieldTextChoices, tone : {"casual", "angry"}]

InputInit ==
    /\ PipelineIdle /\ api_key
    /\ ScraperIdle /\ ServerIdle
    /\ input_data \in Bodies
    /\ input_validated = NotValidated

\* FastAPI builds the OutreachInput from the request body
ValidateInput ==
    /\ ~input_validated.done
    /\ input_validated' = OutreachInput(input_data)
    /\ UNCHANGED <<input_data, pipelineVars, scraperVars, serverVars>>

InputNext == ValidateInput

InputSpec == InputInit /\ [][InputNext]_vars

----------------------------------------------------------------------------
\* The server under concurrent requests. Each worker thread serves one
\* request: POST /run, POST /start_job or GET /status. A step is one access to
\* llm_router or jobs_store, or the thread's own work up to its next access.

ServerResearchTexts ==
    {ResearchText(2, "extra_key"), Decorate(ResearchText(1, "ok"), "fenced_json"),
     ResearchText(0, "ok"), <<"Sorry", SPACE, "I", SPACE, "cannot", SPACE, "help">>}
ServerCopyTexts == {CopyText(3, "ok"), CopyText(4, "ok"), <<LBRACK, "1", RBRACK>>}
ServerQATexts == {QAText("low", "ok"), QAText("urgent", "ok")}

ServerTexts(stage) ==
    CASE stage = "research" -> ServerResearchTexts
      [] stage = "copy" -> ServerCopyTexts
      [] stage = "qa" -> ServerQATexts

ModelOf(stage) ==
    CASE stage = "research" -> "ResearchOutput"
      [] stage = "copy" -> "CopyOutput"
      [] stage = "qa" -> "QAOutput"

StageValid(stage, d) ==
    CASE stage = "research" -> ResearchOutputValid(d)
      [] stage = "copy" -> CopyOutputValid(d)
      [] stage = "qa" -> QAOutputValid(d)

\* what the prompt of a stage is built from, the request's inputs being the
\* same in every request: the page, or the previous stage's output as dumped
PromptOf(r) ==
    CASE r.stage = "research" -> <<"research">> \o PageText
      [] r.stage = "copy" -> <<"copy">> \o JsonDumps(r.research_output)
      [] r.stage = "qa" -> <<"qa">> \o JsonDumps(r.copy_output)

AttributeError ==
    [kind |-> "AttributeError", origin |-> "_call_gemini",
     msg |-> "'NoneType' object has no attribute 'generate_content'"]

offServer == <<localVars, scraperVars, inputVars>>

ServerInit ==
    /\ PipelineIdle
    /\ ScraperIdle /\ InputIdle
    /\ req = [t \in Threads |-> IdleRequest]
    /\ configure_calls = 0
    /\ backend_memo = <<>>
    /\ backend_repeats \in BOOLEAN
    /\ credential_late = FALSE

\* run_outreach_agent up to crew.run(input_data)
ReceiveRun(t) ==
    /\ req[t].pc = "idle"
    /\ req' = [req EXCEPT ![t] = [@ EXCEPT !.kind = "run", !.pc = "fetch"]]
    /\ UNCHANGED <<sharedVars, configure_calls, backend_memo, backend_repeats,
                   credential_late, offServer>>

\* start_job up to crew.run(...): jobs_store[job_id] = {..."status": "running",
\* "result": None}; the job_id is a new uuid4
ReceiveStartJob(t) ==
    /\ req[t].pc = "idle"
    /\ jobs_store' = (t :> [status |-> "running", result |-> NoJobResult]) @@ jobs_store
    /\ req' = [req EXCEPT ![t] = [@ EXCEPT !.kind = "start_job", !.job = t,
                                           !.pc = "fetch"]]
    /\ UNCHANGED <<routerVars, configure_calls, backend_memo, backend_repeats,
                   credential_late, offServer>>

\* get_job_status: if job_id not in jobs_store: 404; job = jobs_store[job_id]
ReceiveStatus(t, job_id) ==
    /\ req[t].pc = "idle"
    /\ req' = [req EXCEPT ![t] =
                  IF job_id \in DOMAIN jobs_store
                  THEN [@ EXCEPT !.kind = "status", !.job = job_id, !.pc = "read_status"]
                  ELSE [@ EXCEPT !.kind = "status", !.job = job_id, !.pc = "done",
                                 !.response = [NoResponse EXCEPT !.code = 404,
                                                  !.status = "error",
                                                  !.error = "Job not found"]]]
    /\ UNCHANGED <<sharedVars, configure_calls, backend_memo, backend_repeats,
                   credential_late, offServer>>

\* JobStatusResponse(..., status=job["status"], ...
ReadStatus(t) ==
    /\ req[t].pc = "read_status"
    /\ req' = [req EXCEPT ![t] = [@ EXCEPT !.seen_status = jobs_store[req[t].job].status,
                                           !.pc = "read_result"]]
    /\ UNCHANGED <<sharedVars, configure_calls, backend_memo, backend_repeats,
                   credential_late, offServer>>

\* ... result=job["result"]), and the response
ReadResult(t) ==
    /\ req[t].pc = "read_result"
    /\ req' = [req EXCEPT ![t] =
                  [@ EXCEPT !.seen_result = jobs_store[req[t].job].result,
                            !.response = [NoResponse EXCEPT !.code = 200,
                                             !.status = req[t].seen_status],
                            !.pc = "done"]]
    /\ UNCHANGED <<sharedVars, configure_calls, backend_memo, backend_repeats,
                   credential_late, offServer>>

\* STEP 0 of run: fetch_page
ThreadFetchPage(t) ==
    /\ req[t].pc = "fetch"
    /\ \E outcome \in {"ok", "timeout"} :
          req' = [req EXCEPT ![t] =
                     IF outcome = "ok"
                     THEN [@ EXCEPT !.fetch = outcome, !.stage = "research",
                                    !.pc = "setup"]
                     ELSE [@ EXCEPT !.fetch = outcome, !.pc = "raised",
                                    !.exc = ScraperError("Failed to fetch")]]
    /\ UNCHANGED <<sharedVars, configure_calls, backend_memo, backend_repeats,
                   credential_late, offServer>>

\* generate -> _call_gemini -> _setup_gemini: if self._gemini_configured: return
SetupGemini(t) ==
    /\ req[t].pc = "setup"
    /\ req' = [req EXCEPT ![t] =
                  [@ EXCEPT !.generate_calls = req[t].generate_calls + 1,
                            !.pc = IF gemini_configured THEN "call" ELSE "getenv"]]
    /\ UNCHANGED <<sharedVars, configure_calls, backend_memo, backend_repeats,
                   credential_late, offServer>>

\* a variant that goes on to genai.configure without looking at the key
GetEnvNoCheck(t) ==
    /\ req[t].pc = "getenv"
    /\ req' = [req EXCEPT ![t] = [@ EXCEPT !.api_key = api_key, !.pc = "configure"]]
    /\ UNCHANGED <<sharedVars, configure_calls, backend_memo, backend_repeats,
                   credential_late, offServer>>

\* a variant that marks the router configured before it raises
GetEnvMarksConfigured(t) ==
    /\ req[t].pc = "getenv"
    /\ req' = [req EXCEPT ![t] =
                  IF api_key
                  THEN [@ EXCEPT !.api_key = TRUE, !.pc = "configure"]
                  ELSE [@ EXCEPT !.api_key = FALSE, !.pc = "raised",
                                 !.exc = CredentialError]]
    /\ gemini_configured' = (gemini_configured \/ ~api_key)
    /\ UNCHANGED <<gemini_model, api_key, jobs_store, configure_calls, backend_memo,
                   backend_repeats, credential_late, offServer>>

\* api_key = os.getenv("GEMINI_API_KEY"); if not api_key: raise ValueError(...)
GetEnv(t) ==
    /\ req[t].pc = "getenv"
    /\ req' = [req EXCEPT ![t] =
                  IF api_key
                  THEN [@ EXCEPT !.api_key = TRUE, !.pc = "configure"]
                  ELSE [@ EXCEPT !.api_key = FALSE, !.pc = "raised",
                                 !.exc = CredentialError]]
    /\ UNCHANGED <<sharedVars, configure_calls, backend_memo, backend_repeats,
                   credential_late, offServer>>

\* a variant that sets _gemini_configured before the model is created
GenaiConfigureFlagFirst(t) ==
    /\ req[t].pc = "configure"
    /\ configure_calls' = configure_calls + 1
    /\ gemini_configured' = TRUE
    /\ req' = [req EXCEPT ![t] = [@ EXCEPT !.pc = "create"]]
    /\ UNCHANGED <<gemini_model, api_key, jobs_store, backend_memo, backend_repeats,
                   credential_late, offServer>>

\* genai.configure(api_key=api_key)
GenaiConfigure(t) ==
    /\ req[t].pc = "configure"
    /\ configure_calls' = configure_calls + 1
    /\ req' = [req EXCEPT ![t] = [@ EXCEPT !.pc = "create"]]
    /\ UNCHANGED <<sharedVars, backend_memo, backend_repeats, credential_late,
                   offServer>>

\* self._gemini_model = genai.GenerativeModel("gemini-2.5-flash")
CreateModel(t) ==
    /\ req[t].pc = "create"
    /\ gemini_model' = GenerativeModel
    /\ req' = [req EXCEPT ![t] = [@ EXCEPT !.pc = "set_configured"]]
    /\ UNCHANGED <<gemini_configured, api_key, jobs_store, configure_calls,
                   backend_memo, backend_repeats, credential_late, offServer>>

\* self._gemini_configured = True
SetConfigured(t) ==
    /\ req[t].pc = "set_configured"
    /\ gemini_configured' = TRUE
    /\ req' = [req EXCEPT ![t] = [@ EXCEPT !.pc = "call"]]
    /\ UNCHANGED <<gemini_model, api_key, jobs_store, configure_calls, backend_memo,
                   backend_repeats, credential_late, offServer>>

\* response = self._gemini_model.generate_content(prompt); return response.text
GenerateContent(t) ==
    /\ req[t].pc = "call"
    /\ IF gemini_model = None
       THEN /\ req' = [req EXCEPT ![t] = [@ EXCEPT !.pc = "raised",
                                                   !.exc = AttributeError]]
            /\ UNCHANGED backend_memo
       ELSE \E prompt \in {PromptOf(req[t])} :
            \E reply \in Replies(ServerTexts(req[t].stage)) :
               /\ (backend_repeats /\ prompt \in DOMAIN backend_memo)
                      => reply = backend_memo[prompt]
               /\ backend_memo' = IF backend_repeats
                                  THEN (prompt :> reply) @@ backend_memo
                                  ELSE backend_memo
               /\ req' = [req EXCEPT ![t] =
                             IF reply.ok
                             THEN [@ EXCEPT !.provider_calls = req[t].provider_calls + 1,
                                            !.raw = reply.text, !.pc = "digest"]
                             ELSE [@ EXCEPT !.provider_calls = req[t].provider_calls + 1,
                                            !.exc = ProviderError, !.pc = "raised"]]
    /\ UNCHANGED <<sharedVars, configure_calls, backend_repeats, credential_late,
                   offServer>>

NextStage(stage) ==
    CASE stage = "research" -> "copy"
      [] stage = "copy" -> "qa"
      [] stage = "qa" -> "assemble"

\* research_output = ..., copy_output = ..., qa_output = ...
Kept(r, val) ==
    CASE r.stage = "research" -> [r EXCEPT !.research_output = val]
      [] r.stage = "copy" -> [r EXCEPT !.copy_output = val]
      [] r.stage = "qa" -> [r EXCEPT !.qa_output = val]

\* run between two generate calls: _parse_json_output on the stage's text and
\* the stage's model on the parsed output, then the next call's arguments
Digest(t) ==
    /\ req[t].pc = "digest"
    /\ \E out \in {ParseJsonOutput(req[t].raw)} :
       \E kept \in {Kept(req[t], out.val)} :
          req' = [req EXCEPT ![t] =
                     IF ~out.ok
                     THEN [@ EXCEPT !.exc = ParseError(kept.stage), !.pc = "raised"]
                     ELSE IF out.val.t # "obj"
                     THEN [kept EXCEPT !.exc = MappingTypeError(ModelOf(kept.stage)),
                                       !.pc = "raised"]
                     ELSE IF ~StageValid(kept.stage, out.val.v)
                     THEN [kept EXCEPT !.exc = ValidationError(ModelOf(kept.stage)),
                                       !.pc = "raised"]
                     ELSE [kept EXCEPT !.stage = NextStage(kept.stage),
                                       !.pc = IF kept.stage = "qa" THEN "assemble"
                                              ELSE "setup"]]
    /\ UNCHANGED <<sharedVars, configure_calls, backend_memo, backend_repeats,
                   credential_late, offServer>>

\* FINAL of run: return OutreachOutput(...)
ThreadAssemble(t) ==
    /\ req[t].pc = "assemble"
    /\ \E o \in {OutreachOutput(CopyOutput(req[t].copy_output.v),
                                  ResearchOutput(req[t].research_output.v),
                                  QAOutput(req[t].qa_output.v))} :
          req' = [req EXCEPT ![t] =
                     IF OutreachOutputValid(o)
                     THEN [@ EXCEPT !.result = o, !.pc = "returned"]
                     ELSE [@ EXCEPT !.exc = ValidationError("OutreachOutput"),
                                    !.pc = "raised"]]
    /\ UNCHANGED <<sharedVars, configure_calls, backend_memo, backend_repeats,
                   credential_late, offServer>>

\* run_outreach_agent: return result, or the except clause of the exception
RunRespond(t) ==
    /\ req[t].kind = "run" /\ req[t].pc \in {"returned", "raised"}
    /\ req' = [req EXCEPT ![t] =
                  [@ EXCEPT !.pc = "done",
                            !.response =
                                IF req[t].pc = "returned"
                                THEN [code |-> 200, status |-> "success",
                                      error |-> "none", message |-> "none",
                                      body |-> req[t].result]
                                ELSE HttpError(req[t].exc)]]
    /\ UNCHANGED <<sharedVars, configure_calls, backend_memo, backend_repeats,
                   credential_late, offServer>>

\* start_job: jobs_store[job_id]["status"] = "completed", or "failed" in the
\* except clause
StartJobSetStatus(t) ==
    /\ req[t].kind = "start_job" /\ req[t].pc \in {"returned", "raised"}
    /\ jobs_store' = [jobs_store EXCEPT ![req[t].job].status =
                         IF req[t].pc = "returned" THEN "completed" ELSE "failed"]
    /\ req' = [req EXCEPT ![t] = [@ EXCEPT !.pc = "set_result"]]
    /\ UNCHANGED <<routerVars, configure_calls, backend_memo, backend_repeats,
                   credential_late, offServer>>

\* start_job: jobs_store[job_id]["result"] = result.model_dump_json(), or
\* json.dumps({"error": str(e)}) in the except clause
StartJobSetResult(t) ==
    /\ req[t].kind = "start_job" /\ req[t].pc = "set_result"
    /\ jobs_store' = [jobs_store EXCEPT ![req[t].job].result =
                         IF req[t].exc = NoExc
                         THEN [kind |-> "output", output |-> req[t].result,
                               error |-> "none"]
                         ELSE [kind |-> "error", output |-> NoResult,
                               error |-> req[t].exc.msg]]
    /\ req' = [req EXCEPT ![t] = [@ EXCEPT !.pc = "respond"]]
    /\ UNCHANGED <<routerVars, configure_calls, backend_memo, backend_repeats,
                   credential_late, offServer>>

\* start_job: return StartJobResponse(status="success", ...)
StartJobRespond(t) ==
    /\ req[t].kind = "start_job" /\ req[t].pc = "respond"
    /\ req' = [req EXCEPT ![t] = [@ EXCEPT !.pc = "done", !.response = StartJobResponse]]
    /\ UNCHANGED <<sharedVars, configure_calls, backend_memo, backend_repeats,
                   credential_late, offServer>>

\* the operator sets GEMINI_API_KEY in the environment of the running process
ProvideCredential ==
    /\ ~api_key
    /\ api_key' = TRUE
    /\ credential_late' = TRUE
    /\ UNCHANGED <<gemini_configured, gemini_model, jobs_store, req, configure_calls,
                   backend_memo, backend_repeats, offServer>>

ServerNext ==
    \/ \E t \in Threads : ReceiveRun(t)
    \/ \E t \in Threads : ReceiveStartJob(t)
    \/ \E t \in Threads : \E job_id \in Threads : ReceiveStatus(t, job_id)
    \/ \E t \in Threads : ReadStatus(t)
    \/ \E t \in Threads : ReadResult(t)
    \/ \E t \in Threads : ThreadFetchPage(t)
    \/ \E t \in Threads : SetupGemini(t)
    \/ \E t \in Threads : GetEnv(t)
    \/ \E t \in Threads : GenaiConfigure(t)
    \/ \E t \in Threads : CreateModel(t)
    \/ \E t \in Threads : SetConfigured(t)
    \/ \E t \in Threads : GenerateContent(t)
    \/ \E t \in Threads : Digest(t)
    \/ \E t \in Threads : ThreadAssemble(t)
    \/ \E t \in Threads : RunRespond(t)
    \/ \E t \in Threads : StartJobSetStatus(t)
    \/ \E t \in Threads : StartJobSetResult(t)
    \/ \E t \in Threads : StartJobRespond(t)
    \/ ProvideCredential

ServerSpec == ServerInit /\ [][ServerNext]_vars

----------------------------------------------------------------------------
\* Properties.

Has(seq, x) == \E i \in 1..Len(seq) : seq[i] = x
IsPrefix(a, b) == Len(a) <= Len(b) /\ \A i \in 1..Len(a) : a[i] = b[i]

StepOrder == <<"fetch", "research", "copy", "qa", "assemble">>
TaskOrder == <<"research", "copy", "qa">>

ResearchAccepted == research_output.t = "obj" /\ ResearchOutputValid(research_output.v)
CopyAccepted == copy_output.t = "obj" /\ CopyOutputValid(copy_output.v)
QAAccepted == qa_output.t = "obj" /\ QAOutputValid(qa_output.v)

\* C1: run_copy has been invoked only if the Research stage's parsed output
\* passed ResearchOutput, and run_qa only if the Copy stage's parsed output
\* passed CopyOutput: a stage whose output fails validation ends the run.
C1_StrictShortCircuit ==
    /\ Has(steps, "copy") => ResearchAccepted
    /\ Has(steps, "qa") => CopyAccepted
    /\ exc.origin = "ResearchOutput" => ~Has(steps, "copy")
    /\ exc.origin = "CopyOutput" => ~Has(steps, "qa")

\* the Research output was accepted and the Copy stage ran; its output failed
\* CopyOutput and the run ended there
C1_Witness ==
    /\ exc = ValidationError("CopyOutput")
    /\ steps = <<"fetch", "research", "copy">>
    /\ copy_output.t = "obj" /\ ~CopyOutputValid(copy_output.v)

\* C2: the steps of a run are a prefix of fetch, research, copy, qa, assemble
\* (so each is taken at most once, in that order), the generation calls are a
\* prefix of research, copy, qa, and a run that returned made exactly these three.
C2_LinearNoRetry ==
    /\ IsPrefix(steps, StepOrder)
    /\ IsPrefix(calls, TaskOrder)
    /\ result # NoResult => steps = StepOrder /\ calls = TaskOrder

\* a run that returned, after a provider failure is excluded
C2_Witness == pc = "done" /\ result # NoResult /\ calls = TaskOrder

IsProse(text) ==
    \A i \in 1..Len(text) :
        text[i] \notin {LBRACE, RBRACE, LBRACK, RBRACK, QUOTE, FENCE} \cup NumberTokens

\* C4: where the Research stage's raw output is plain prose, run leaves with
\* the ValueError of _parse_json_output and neither run_copy nor run_qa is invoked.
C4_ProseResearchOutput ==
    (research_result # NoText /\ IsProse(research_result) /\ pc # "parse_research") =>
        /\ exc = ParseError("research")
        /\ ~Has(steps, "copy")
        /\ ~Has(steps, "qa")

\* the Research stage answered a sentence and the parse step has run
C4_Witness ==
    /\ research_result # NoText /\ Has(research_result, COMMA) /\ IsProse(research_result)
    /\ pc = "raised"
    /\ exc.origin = "_parse_json_output"

C6_FailureReported ==
    (pc = "done" /\ exc # NoExc) =>
        /\ response.status # "success"
        /\ response.error # "none"
        /\ response.message # "none"

\* The stages' raw text, parsed output and the pc at which the text is parsed
Stages == {"research", "copy", "qa"}
RawOf(st) ==
    IF st = "research" THEN research_result
    ELSE IF st = "copy" THEN copy_result ELSE qa_result
OutputOf(st) ==
    IF st = "research" THEN research_output
    ELSE IF st = "copy" THEN copy_output ELSE qa_output
ParsedAlready(st) == RawOf(st) # NoText /\ pc # "parse_" \o st
ValidatedAlready(st) == ParsedAlready(st) /\ pc # "validate_" \o st

\* a text with one fenced block, the block holding one JSON object
FenceIndexes(text) == {i \in 1..Len(text) : text[i] = FENCE}
FencedBody(text) ==
    LET i == Least(FenceIndexes(text))
        j == Greatest(FenceIndexes(text))
    IN SubSeq(text, IF text[i + 1] = JSONWORD THEN i + 2 ELSE i + 1, j - 1)
IsFencedObject(text) ==
    /\ Cardinality(FenceIndexes(text)) = 2
    /\ Loads(FencedBody(text)).ok
    /\ Loads(FencedBody(text)).val.t = "obj"

\* C7: where a raw text holds one JSON object in a fenced block, whatever the
\* commentary around the fence, the object's depth and its strings,
\* _parse_json_output returns that object.
C7_FencedObjectRecovered ==
    \A st \in Stages :
        (ParsedAlready(st) /\ IsFencedObject(RawOf(st))) =>
            /\ exc # ParseError(st)
            /\ OutputOf(st) = Loads(FencedBody(RawOf(st))).val

\* a text without a fence: commentary free of braces, one JSON object,
\* commentary free of braces
BraceIndexes(text) == {i \in 1..Len(text) : text[i] \in {LBRACE, RBRACE}}
BareBody(text) ==
    SubSeq(text, Least(BraceIndexes(text)), Greatest(BraceIndexes(text)))
IsBareObject(text) ==
    /\ FenceIndexes(text) = {}
    /\ BraceIndexes(text) # {}
    /\ Loads(BareBody(text)).ok
    /\ Loads(BareBody(text)).val.t = "obj"

\* C8: where a raw text holds a bare JSON object, with or without commentary
\* before and after it, _parse_json_output returns an object equal to it.
C8_BareObjectRecovered ==
    \A st \in Stages :
        (ParsedAlready(st) /\ IsBareObject(RawOf(st))) =>
            /\ exc # ParseError(st)
            /\ OutputOf(st) = Loads(BareBody(RawOf(st))).val

\* neither search of _parse_json_output finds a span
NoBraceSpan(text) == FenceSearch(text) = <<0, 0>> /\ BraceSearch(text) = <<0, 0>>

\* C9: where a stage's raw output holds no {...} span, the parse-and-validate
\* step of run leaves with the ValueError of _parse_json_output and with no
\* other exception.
C9_NoSpanIsParseError ==
    \A st \in Stages :
        (ValidatedAlready(st) /\ NoBraceSpan(RawOf(st))) => exc = ParseError(st)

SubjectLinesOf(output) == Field(output.v, "subject_lines")

\* C10: a parsed Copy output whose subject_lines is a list of length other than
\* 3 fails CopyOutput, whatever its other fields, the run ends there, and a
\* result that run returns has exactly 3 subject lines.
C10_ExactlyThreeSubjectLines ==
    /\ (/\ copy_output.t = "obj" /\ pc # "validate_copy"
        /\ SubjectLinesOf(copy_output).t = "arr"
        /\ Len(SubjectLinesOf(copy_output).v) # 3) =>
            /\ exc = ValidationError("CopyOutput")
            /\ ~Has(steps, "qa")
            /\ result = NoResult
    /\ result # NoResult => Len(result.subject_lines) = 3

\* four subject lines with both emails valid: CopyOutput refused them
C10_Witness ==
    /\ copy_output.t = "obj"
    /\ IsStrList(SubjectLinesOf(copy_output))
    /\ Len(SubjectLinesOf(copy_output).v) > 3
    /\ IsStr(Field(copy_output.v, "primary_email"))
    /\ IsStr(Field(copy_output.v, "follow_up_email"))
    /\ exc = ValidationError("CopyOutput")

\* C11: the text _extract_text returns is never longer than MAX_CONTENT_LENGTH,
\* the truncated text with its marker included.
C11_LengthWithinCap ==
    extracted # NotExtracted => TextLen(extracted) <= MAX_CONTENT_LENGTH

IsBlankOnly(v) == v # <<>> /\ StripText(v) = <<>>

\* C14: in every OutreachInput that passed validation the four str fields are
\* non-empty and of their minimum lengths as trimmed, and a body with a field
\* of whitespace only is rejected.
C14_NonEmptyAfterTrim ==
    input_validated.done =>
        /\ input_validated.ok =>
              \A f \in StrFields :
                  /\ input_validated.val[f] = StripText(input_data[f])
                  /\ TextLen(input_validated.val[f]) >= MinLength(f)
        /\ (\E f \in StrFields : IsBlankOnly(input_data[f])) => ~input_validated.ok

Models == {"ResearchOutput", "CopyOutput", "QAOutput", "OutreachOutput"}
Answered(code, error) == response.code = code /\ response.error = error
RunFailed == pc = "done" /\ endpoint = "run" /\ exc # NoExc

\* C15: POST /run answers a scrape failure with 502 scrape_failed, a stage
\* output that fails its schema with 400 validation_error, an unparseable stage
\* output with 500 agent_error, and every other exception with 500
\* internal_error.
C15_ErrorKinds ==
    RunFailed =>
        IF exc.origin = "fetch_page" THEN Answered(502, "scrape_failed")
        ELSE IF exc.kind = "ValidationError" THEN Answered(400, "validation_error")
        ELSE IF exc.origin = "_parse_json_output" THEN Answered(500, "agent_error")
        ELSE Answered(500, "internal_error")

\* C15, amended: as C15, except that the ValueError _setup_gemini raises when
\* GEMINI_API_KEY is not set is answered with 500 agent_error as well; the
\* failed provider call and the TypeError of a non-dict stage output are
\* answered with 500 internal_error.
C15_ErrorKindsByClass ==
    RunFailed =>
        /\ response.status = "error" /\ response.body = NoResult
        /\ CASE exc.origin = "fetch_page" -> Answered(502, "scrape_failed")
             [] exc.origin \in Models /\ exc.kind = "ValidationError" ->
                    Answered(400, "validation_error")
             [] exc.origin \in {"_parse_json_output", "_setup_gemini"} ->
                    Answered(500, "agent_error")
             [] exc.origin = "generate_content" -> Answered(500, "internal_error")
             [] exc.origin \in Models /\ exc.kind = "TypeError" ->
                    Answered(500, "internal_error")

\* GEMINI_API_KEY was not set and POST /run answered
C15_Witness ==
    /\ RunFailed
    /\ exc.origin = "_setup_gemini"
    /\ response.error = "agent_error"

\* C16: the OutreachOutput run returns has the Copy output's subject lines and
\* two email bodies, the Research output's personalization_hooks as its
\* personalization_points and the QA output's spam_risk_score, as validated;
\* it has 3 subject lines, 1 to 5 personalization points and a score of low,
\* medium or high.
C16_AssembledFromValidated ==
    result # NoResult =>
        /\ result.subject_lines = copy_validated.subject_lines
        /\ result.subject_lines = StrItems(Field(copy_output.v, "subject_lines"))
        /\ result.primary_email = copy_validated.primary_email
        /\ result.primary_email = Field(copy_output.v, "primary_email").v
        /\ result.follow_up_email = copy_validated.follow_up_email
        /\ result.follow_up_email = Field(copy_output.v, "follow_up_email").v
        /\ result.personalization_points = research_validated.personalization_hooks
        /\ result.personalization_points =
               StrItems(Field(research_output.v, "personalization_hooks"))
        /\ result.spam_risk_score = qa_validated.spam_risk_score
        /\ result.spam_risk_score = Field(qa_output.v, "spam_risk_score").v
        /\ Len(result.subject_lines) = 3
        /\ Len(result.personalization_points) \in 1..5
        /\ result.spam_risk_score \in {<<"low">>, <<"medium">>, <<"high">>}

\* POST /run answered with an OutreachOutput of five personalization points
C16_Witness ==
    /\ pc = "done" /\ endpoint = "run"
    /\ response.body = result /\ result # NoResult
    /\ Len(result.personalization_points) = 5
    /\ result.primary_email # result.follow_up_email

\* a validated model as the dict its fields make
ResearchDict(r) ==
    JObj((<<"industry">> :> JStr(r.industry))
         @@ (<<"value_proposition">> :> JStr(r.value_proposition))
         @@ (<<"personalization_hooks">> :>
                 JArr([i \in 1..Len(r.personalization_hooks) |->
                          JStr(r.personalization_hooks[i])]))
         @@ (<<"company_summary">> :> JStr(r.company_summary)))
CopyDict(c) ==
    JObj((<<"subject_lines">> :>
              JArr([i \in 1..Len(c.subject_lines) |-> JStr(c.subject_lines[i])]))
         @@ (<<"primary_email">> :> JStr(c.primary_email))
         @@ (<<"follow_up_email">> :> JStr(c.follow_up_email)))

\* C18: what run_copy is given as research_output is the validated Research
\* output serialised, and what run_qa is given as copy_output is the validated
\* Copy output serialised: the schema's fields with their validated values and
\* no other key of the raw JSON.
C18_ValidatedOutputForwarded ==
    /\ copy_prompt_research # NoText =>
           Loads(copy_prompt_research).val = ResearchDict(research_validated)
    /\ qa_prompt_copy # NoText =>
           Loads(qa_prompt_copy).val = CopyDict(copy_validated)

\* C12: over any interleaving of generate calls, the configure-and-create-model
\* step of _setup_gemini is executed at most once.
C12_SetupAtMostOnce == configure_calls <= 1

InSetup == {"configure", "create", "set_configured"}

\* C13: a new LLMRouter is unconfigured and has made no backend call, with or
\* without a credential; while no credential is available every generate call
\* raises the configuration error at os.getenv, before a provider call, and the
\* router stays unconfigured; a call that finds the credential goes on to set
\* the router up and does not raise that error.
C13_CredentialCheckedOnFirstUse ==
    /\ (\A t \in Threads : req[t].generate_calls = 0) =>
           ~gemini_configured /\ gemini_model = None /\ configure_calls = 0
    /\ ~api_key =>
           /\ ~gemini_configured /\ gemini_model = None /\ configure_calls = 0
           /\ \A t \in Threads :
                 /\ req[t].provider_calls = 0
                 /\ req[t].generate_calls > 0 =>
                        req[t].pc = "getenv" \/ req[t].exc = CredentialError
    /\ \A t \in Threads :
          /\ req[t].exc = CredentialError =>
                 ~req[t].api_key /\ req[t].provider_calls = 0 /\ req[t].pc # "call"
          /\ req[t].pc \in InSetup => req[t].api_key
          /\ req[t].api_key => req[t].exc # CredentialError

\* one request failed for want of the credential; the credential was then
\* set, and another request's call set the router up and got its answer
C13_Witness ==
    \E a, b \in Threads :
        /\ req[a].exc = CredentialError
        /\ credential_late
        /\ req[b].api_key /\ req[b].provider_calls > 0 /\ req[b].exc = NoExc
        /\ gemini_configured /\ gemini_model = GenerativeModel

RunEnded(t) ==
    /\ req[t].kind \in {"run", "start_job"}
    /\ req[t].pc \in {"returned", "raised", "set_result", "respond", "done"}

\* C17: with a backend that answers a prompt the way it did before and an
\* environment that does not change, two runs that fetched the same page end
\* alike, whatever their interleaving: with the same OutreachOutput, or with
\* the same exception.
C17_SameRunsSameOutcome ==
    (backend_repeats /\ ~credential_late) =>
        \A a, b \in Threads :
            (RunEnded(a) /\ RunEnded(b) /\ req[a].fetch = req[b].fetch) =>
                /\ req[a].result = req[b].result
                /\ req[a].exc = req[b].exc

\* two runs that both went through _setup_gemini at once and returned the
\* same OutreachOutput
C17_Witness ==
    /\ backend_repeats /\ ~credential_late
    /\ configure_calls = 2
    /\ \A t \in Threads : RunEnded(t) /\ req[t].result # NoResult
    /\ req[1].result = req[2].result

JobStatuses == {"running", "completed", "failed"}
InRun(t) ==
    req[t].pc \in {"fetch", "setup", "getenv", "call", "digest", "assemble"} \cup InSetup

\* C19: a job is stored as running with a null result while its run goes on,
\* and is completed with the OutreachOutput, or failed with an error payload,
\* when start_job returns; GET /status never reports a status other than
\* running, completed and failed, and reports a null result exactly with the
\* status running.
C19_JobLifecycle ==
    /\ \A j \in DOMAIN jobs_store : jobs_store[j].status \in JobStatuses
    /\ \A t \in Threads :
          /\ (req[t].kind = "start_job" /\ InRun(t)) =>
                 jobs_store[t] = [status |-> "running", result |-> NoJobResult]
          /\ (req[t].kind = "start_job" /\ req[t].pc = "done") =>
                 /\ jobs_store[t].status =
                        (IF req[t].exc = NoExc THEN "completed" ELSE "failed")
                 /\ jobs_store[t].result.kind =
                        (IF req[t].exc = NoExc THEN "output" ELSE "error")
                 /\ jobs_store[t].result.output = req[t].result
          /\ (req[t].kind = "status" /\ req[t].pc = "done"
                  /\ req[t].response.code = 200) =>
                 /\ req[t].seen_status \in JobStatuses
                 /\ (req[t].seen_result = NoJobResult) = (req[t].seen_status = "running")

\* C20: _gemini_configured implies _gemini_model is set, and no generate call
\* reaches generate_content with _gemini_model unset.
C20_ConfiguredImpliesModel ==
    /\ gemini_configured => gemini_model # None
    /\ \A t \in Threads :
          /\ req[t].pc = "call" => gemini_model # None
          /\ req[t].exc # AttributeError

\* one call is past _setup_gemini while another is still inside it
C20_Witness ==
    \E a, b \in Threads :
        /\ req[a].pc = "call" /\ req[b].pc = "create"
        /\ gemini_configured

====
